---- MODULE Spec2Model ----
(***************************************************************************)
(* deno_vm: the Python side of the bridge to the vm-server child process.  *)
(* VMServer (start, close, communicate, generate_id, add_vm, remove_vm,    *)
(* the reader thread) and BaseVM/VM (create, destroy, run, communicate),   *)
(* modelled from src/deno_vm/__init__.py.  A thread is a caller thread or  *)
(* the reader thread of one spawned process; every statement that touches  *)
(* shared state of the bridge is one step.  The child process is the       *)
(* environment: it answers the requests it was sent, in any order.         *)
(***************************************************************************)
EXTENDS Integers, Sequences, FiniteSets, TLC

\* ------------------------------------------------------------- bounds
NCallers == 2          \* caller threads
MaxSpawn == 1          \* processes one bridge may spawn in a run
NProcs == 2            \* the same, in the program that calls start() again
MaxCalls == 3          \* operations the callers may begin
MaxVMCalls == 4        \* the same, in the program that uses VM handles
MaxJunk == 1           \* unparsable lines the child may emit
MaxEvents == 2         \* console events the child may emit
NHandles == 2          \* VM handles

Callers == 1..NCallers
Procs == 1..NProcs
ReaderOf(p) == NCallers + p
Readers == {ReaderOf(p) : p \in Procs}
Threads == Callers \cup Readers
Handles == 1..NHandles

\* ------------------------------------------------------------- values
\* Python's None, as a process, a vm id, a response.
None == 0
NoneResp == [type |-> "None", id |-> 0, status |-> "None", value |-> 0,
             error |-> 0, cno |-> 0, vmId |-> 0, name |-> ""]
\* The error text of the response to request req (a text per request).
ErrorText(req) == req.cno
Response(req, status, value) ==
    [type |-> "response", id |-> req.id, status |-> status, value |-> value,
     error |-> IF status = "error" THEN ErrorText(req) ELSE 0,
     cno |-> req.cno, vmId |-> 0, name |-> ""]
Event(v, name, value) ==
    [type |-> "event", id |-> 0, status |-> "", value |-> value,
     error |-> 0, cno |-> 0, vmId |-> v, name |-> name]
Garbage == [type |-> "garbage", id |-> 0, status |-> "", value |-> 0,
            error |-> 0, cno |-> 0, vmId |-> 0, name |-> ""]
\* Lines that parse as JSON: a value without "type" ({} or null), an object of
\* another type, a response that no request asked for.
NoType == [Garbage EXCEPT !.type = "notype"]
OtherType == [Garbage EXCEPT !.type = "other"]
StrayResponse(id) ==
    [type |-> "response", id |-> id, status |-> "success", value |-> 0,
     error |-> 0, cno |-> 0, vmId |-> 0, name |-> ""]

NoRes == [k |-> "none", e |-> "", d |-> NoneResp]
Ret(d) == [k |-> "ret", e |-> "", d |-> d]
Exc(e) == [k |-> "exc", e |-> e, d |-> NoneResp]
RetValue(v) == Ret([NoneResp EXCEPT !.type = "value", !.value = v])
\* raise VMError(data["error"]): the exception and its message
RemoteError(m) ==
    [k |-> "exc", e |-> "VMError:remote",
     d |-> [NoneResp EXCEPT !.type = "message", !.error = m]]

VMErrors == {"VMError:closed", "VMError:start", "VMError:close",
             "VMError:notcreated", "VMError:remote", "VMError:permtype",
             "VMError:permvalue", "VMError:unavailable", "VMError:spawn"}

\* A VMError whose message names a permission category or the command
Named(e, n) ==
    [k |-> "exc", e |-> e, d |-> [NoneResp EXCEPT !.type = "message", !.name = n]]

\* The constructor's arguments. permissions is None or a dict, kept as the
\* sequence of its items in the order of iteration; a value is a list of
\* elements (each a str or not) or not a list. command is the executable: one
\* that can be launched, one that is not found, one that fails to launch.
NoPermissions == <<[cat |-> "None", isList |-> FALSE, elems |-> <<>>]>>
Categories == {"net", "foo"}
Values == {[isList |-> FALSE, elems |-> <<>>],
           [isList |-> TRUE, elems |-> <<>>],
           [isList |-> TRUE, elems |-> <<"str">>],
           [isList |-> TRUE, elems |-> <<"str", "bool">>]}
Item(c, v) == [cat |-> c, isList |-> v.isList, elems |-> v.elems]
Dicts ==
    {<<>>} \cup {<<Item(c, v)>> : c \in Categories, v \in Values}
           \cup {<<Item(q[1], q[3]), Item(q[2], q[4])>> :
                     q \in {x \in Categories \X Categories \X Values \X Values :
                               x[1] # x[2]}}
Commands == {"deno", "missing", "broken"}
Configs == [permissions : {NoPermissions} \cup Dicts, command : Commands]
DefaultConfig == [permissions |-> NoPermissions, command |-> "deno"]

VARIABLES
    closed,      \* VMServer.closed: "None", "False", "True"
    process,     \* VMServer.process: None or the process spawned last
    vms,         \* VMServer.vms: vm id -> handle
    poll,        \* VMServer.poll: request id -> [ev, data]
    write_lock,  \* VMServer.write_lock: None or the thread holding it
    inc,         \* VMServer.inc
    evset,       \* the threading.Event objects that are set (by call number)
    th,          \* per thread: position and locals
    vm,          \* per handle: BaseVM.id, VM.event_que, console, initial code
    child,       \* per process: the child and its two pipes
    spawned,     \* Popen calls made
    sysout,      \* what was written to sys.stdout and sys.stderr
    ncalls,      \* operations begun (names each call and its Event)
    ids,         \* the ids generate_id returned, in order
    closeSent,   \* the threads that wrote a 'close' request to a child, in order
    nev,         \* events the child emitted
    junk,        \* lines outside the protocol the child emitted
    got,         \* per handle: the events taken from event_que, in order
    config       \* VMServer.permissions and VMServer.command

bridgeVars == <<closed, process, vms, poll, write_lock, inc, evset>>
ghostVars == <<ncalls, ids, closeSent, nev, junk, got>>
vars == <<closed, process, vms, poll, write_lock, inc, evset, th, vm, child,
          spawned, sysout, ncalls, ids, closeSent, nev, junk, got, config>>

\* ------------------------------------------------------------- Init
Thread0 ==
    [pc |-> "idle", op |-> "none", act |-> "", id |-> 0, tmp |-> 0, cno |-> 0,
     h |-> 0, vmid |-> 0, proc |-> 0, cl |-> FALSE, pend |-> FALSE,
     res |-> NoRes]
Child0 ==
    [alive |-> "none", stdinClosed |-> FALSE, outClosed |-> FALSE,
     inbox |-> {}, out |-> <<>>, cvms |-> {}, nvm |-> 0, acked |-> {}]

InitBridge ==
    /\ closed = "None"
    /\ process = None
    /\ vms = <<>>
    /\ poll = <<>>
    /\ write_lock = None
    /\ inc = 1
    /\ evset = {}
    /\ th = [t \in Threads |->
                IF t \in Readers THEN [Thread0 EXCEPT !.pc = "r_none"] ELSE Thread0]
    /\ child = [p \in Procs |-> Child0]
    /\ spawned = 0
    /\ sysout = [stdout |-> <<>>, stderr |-> <<>>]
    /\ ncalls = 0
    /\ ids = <<>>
    /\ closeSent = <<>>
    /\ nev = 0
    /\ junk = 0
    /\ got = [h \in Handles |-> <<>>]

\* was: the id the handle had last (None: never created)
Handle0(console, code) ==
    [id |-> None, que |-> <<>>, console |-> console, code |-> code, was |-> None]

Init ==
    /\ InitBridge
    /\ config = DefaultConfig
    /\ vm = [h \in Handles |-> Handle0("off", FALSE)]

\* ------------------------------------------------------------- helpers
PollPut(i, e) == [k \in DOMAIN poll \cup {i} |-> IF k = i THEN e ELSE poll[k]]
PollDel(i) == [k \in DOMAIN poll \ {i} |-> poll[k]]
VmsPut(i, h) == [k \in DOMAIN vms \cup {i} |-> IF k = i THEN h ELSE vms[k]]
VmsDel(i) == [k \in DOMAIN vms \ {i} |-> vms[k]]

\* An operation ends: a caller is idle again with the outcome in res; the reader
\* thread ends (an exception that leaves reader() kills the thread).
Fin(t, s, r) ==
    [s EXCEPT !.pc = IF t \notin Readers THEN "idle"
                     ELSE IF r.k = "exc" THEN "r_dead" ELSE "r_done",
              !.res = r, !.tmp = 0, !.proc = 0]

\* close(): "except OSError: pass" goes on to process.communicate(); every other
\* exception, and any exception in another operation, leaves the operation.
Raise(t, s, e) ==
    IF s.op = "close" /\ e = "OSError"
    THEN [s EXCEPT !.pc = "c_pcomm"]
    ELSE Fin(t, s, Exc(e))

\* An operation that calls VMServer.communicate begins: the call and its Event()
\* get the next call number.
Enter(s, op, act, vmid) ==
    [s EXCEPT !.op = op, !.act = act, !.vmid = vmid, !.pc = "gen1",
              !.cno = ncalls + 1, !.id = 0, !.tmp = 0, !.pend = FALSE,
              !.res = NoRes]

\* (mutant: the status of the ping's response is not looked at)
StartReturn_AnyStatus(t, s, d) ==
    IF d = NoneResp THEN Fin(t, s, Exc("TypeError"))
    ELSE [s EXCEPT !.pc = "s_fin"]

\* start(): data = self.communicate({"action": "ping"}); the status check.
StartReturn(t, s, d) ==
    IF d = NoneResp THEN Fin(t, s, Exc("TypeError"))
    ELSE IF d.status = "error" THEN Fin(t, s, Exc("VMError:start"))
    ELSE [s EXCEPT !.pc = "s_fin"]

\* close(): data = self.communicate({"action": "close"}); the status check.
CloseReturn(t, s, d) ==
    IF d = NoneResp THEN Fin(t, s, Exc("TypeError"))
    ELSE IF d.status = "error" THEN Fin(t, s, Exc("VMError:close"))
    ELSE [s EXCEPT !.pc = "c_pcomm"]

\* (mutant: the VMError does not carry the response's error text)
BaseVMReturn_NoText(t, s, d) ==
    IF d = NoneResp THEN Fin(t, s, Exc("TypeError"))
    ELSE IF d.status # "success" THEN Fin(t, s, RemoteError(0))
    ELSE CASE s.op = "create" -> [s EXCEPT !.pc = "v_setid", !.tmp = d.value]
           [] s.op = "destroy" -> [s EXCEPT !.pc = "v_remove"]
           [] s.op = "create_run" -> Fin(t, s, Ret(NoneResp))
           [] OTHER -> Fin(t, s, RetValue(d.value))

\* BaseVM.communicate after bridge.communicate returned, and what create, run,
\* call and destroy do with the value.
BaseVMReturn(t, s, d) ==
    IF d = NoneResp THEN Fin(t, s, Exc("TypeError"))
    ELSE IF d.status # "success" THEN Fin(t, s, RemoteError(d.error))
    ELSE CASE s.op = "create" -> [s EXCEPT !.pc = "v_setid", !.tmp = d.value]
           [] s.op = "destroy" -> [s EXCEPT !.pc = "v_remove"]
           [] s.op = "create_run" -> Fin(t, s, Ret(NoneResp))
           [] OTHER -> Fin(t, s, RetValue(d.value))

\* VMServer.communicate returns d to the operation that called it.
Return(t, s, d) ==
    CASE s.op = "raw" -> Fin(t, s, Ret(d))
      [] s.op = "start" -> StartReturn(t, s, d)
      [] s.op = "close" -> CloseReturn(t, s, d)
      [] OTHER -> BaseVMReturn(t, s, d)

\* ------------------------------------------------------------- generate_id
\* inc = self.inc
GenRead(t) ==
    /\ th[t].pc = "gen1"
    /\ th' = [th EXCEPT ![t].id = inc, ![t].pc = "gen2"]
    /\ UNCHANGED <<config, bridgeVars, vm, child, spawned, sysout, ghostVars>>

\* self.inc += 1: the read ...
GenLoad(t) ==
    /\ th[t].pc = "gen2"
    /\ th' = [th EXCEPT ![t].tmp = inc + 1, ![t].pc = "gen3"]
    /\ UNCHANGED <<config, bridgeVars, vm, child, spawned, sysout, ghostVars>>

\* ... and the store; return inc
GenStore(t) ==
    /\ th[t].pc = "gen3"
    /\ inc' = th[t].tmp
    /\ ids' = Append(ids, th[t].id)
    /\ th' = [th EXCEPT ![t].pc = "ins"]
    /\ UNCHANGED <<config, closed, process, vms, poll, write_lock, evset, vm, child,
                   spawned, sysout, ncalls, closeSent, nev, junk, got>>

\* ------------------------------------------------------------- communicate
\* with self.poll_lock: self.poll[id] = [event, None]
PollInsert(t) ==
    /\ th[t].pc = "ins"
    /\ poll' = PollPut(th[t].id, [ev |-> th[t].cno, data |-> NoneResp])
    /\ th' = [th EXCEPT ![t].pc = "wlock"]
    /\ UNCHANGED <<config, closed, process, vms, write_lock, inc, evset, vm, child,
                   spawned, sysout, ghostVars>>

\* (mutant: the write is not guarded by the lock)
WriteLock_NoWait(t) ==
    /\ th[t].pc = "wlock"
    /\ write_lock' = t
    /\ th' = [th EXCEPT ![t].pc = "write"]
    /\ UNCHANGED <<config, closed, process, vms, poll, inc, evset, vm, child,
                   spawned, sysout, ghostVars>>

\* with self.write_lock:
WriteLock(t) ==
    /\ th[t].pc = "wlock"
    /\ write_lock = None
    /\ write_lock' = t
    /\ th' = [th EXCEPT ![t].pc = "write"]
    /\ UNCHANGED <<config, closed, process, vms, poll, inc, evset, vm, child,
                   spawned, sysout, ghostVars>>

Request(s) == [id |-> s.id, action |-> s.act, vmId |-> s.vmid, cno |-> s.cno]

\* What self.process.stdin.write raises: process is None, stdin was closed by
\* Popen.communicate, or the pipe's reader is gone.
WriteError ==
    IF process = None THEN "AttributeError"
    ELSE IF child[process].stdinClosed THEN "ValueError"
    ELSE IF child[process].alive = "dead" THEN "OSError"
    ELSE ""

\* self.process.stdin.write(text.encode("utf-8")), and the lock's release
Write(t) ==
    /\ th[t].pc = "write"
    /\ write_lock' = None
    /\ IF WriteError # ""
       THEN /\ th' = [th EXCEPT ![t] = Raise(t, th[t], WriteError)]
            /\ UNCHANGED <<config, child, closeSent>>
       ELSE /\ child' = [child EXCEPT ![process].inbox = @ \cup {Request(th[t])}]
            /\ closeSent' = IF th[t].act = "close" THEN Append(closeSent, t)
                            ELSE closeSent
            /\ th' = [th EXCEPT ![t].pc = "wait"]
    /\ UNCHANGED <<config, closed, process, vms, poll, inc, evset, vm, spawned, sysout,
                   ncalls, ids, nev, junk, got>>

\* event.wait()
Wait(t) ==
    /\ th[t].pc = "wait"
    /\ th[t].cno \in evset
    /\ th' = [th EXCEPT ![t].pc = "del"]
    /\ UNCHANGED <<config, bridgeVars, vm, child, spawned, sysout, ghostVars>>

\* with self.poll_lock: data = self.poll[id][1]; del self.poll[id]; return data
\* (the call's Event object is dropped with the call)
PollDelete(t) ==
    /\ th[t].pc = "del"
    /\ IF th[t].id \in DOMAIN poll
       THEN /\ poll' = PollDel(th[t].id)
            /\ th' = [th EXCEPT ![t] = Return(t, th[t], poll[th[t].id].data)]
       ELSE /\ th' = [th EXCEPT ![t] = Raise(t, th[t], "KeyError")]
            /\ UNCHANGED poll
    /\ evset' = evset \ {th[t].cno}
    /\ UNCHANGED <<config, closed, process, vms, write_lock, inc, vm, child,
                   spawned, sysout, ghostVars>>

Communicate(t) ==
    \/ GenRead(t)
    \/ GenLoad(t)
    \/ GenStore(t)
    \/ PollInsert(t)
    \/ WriteLock(t)
    \/ Write(t)
    \/ Wait(t)
    \/ PollDelete(t)

\* ------------------------------------------------------------- start
\* if self.closed: raise VMError("The VM is closed")
StartRefused == closed = "True"

\* (mutant: only the type of the values is checked)
PermissionError_TypeOnly(perms) ==
    IF perms = NoPermissions THEN NoRes
    ELSE IF \E i \in 1..Len(perms) : ~perms[i].isList
         THEN Named("VMError:permtype",
                    perms[CHOOSE i \in 1..Len(perms) :
                             /\ ~perms[i].isList
                             /\ \A j \in 1..(i-1) : perms[j].isList].cat)
         ELSE NoRes

\* for perm_type, perm_value in self.permissions.items(): the two checks of a
\* value, item after item; the first that fails raises
RECURSIVE CheckItems(_)
CheckItems(items) ==
    IF items = <<>> THEN NoRes
    ELSE IF ~Head(items).isList
         THEN Named("VMError:permtype", Head(items).cat)
    ELSE IF \E i \in 1..Len(Head(items).elems) : Head(items).elems[i] # "str"
         THEN Named("VMError:permvalue", Head(items).cat)
    ELSE CheckItems(Tail(items))

\* if self.permissions is not None: ... raise VMError(...)
PermissionError(perms) ==
    IF perms = NoPermissions THEN NoRes ELSE CheckItems(perms)

Start(t) ==
    /\ th[t].pc = "idle"
    /\ th' = [th EXCEPT ![t] =
                IF StartRefused
                THEN Fin(t, Enter([@ EXCEPT !.cl = TRUE], "start", "", None),
                         Exc("VMError:closed"))
                ELSE IF PermissionError(config.permissions) # NoRes
                THEN Fin(t, Enter([@ EXCEPT !.cl = FALSE], "start", "", None),
                         PermissionError(config.permissions))
                ELSE [Enter([@ EXCEPT !.cl = FALSE], "start", "", None) EXCEPT
                          !.pc = "s_popen"]]
    /\ ncalls' = ncalls + 1
    /\ UNCHANGED <<config, bridgeVars, vm, child, spawned, sysout, ids, closeSent, nev,
                   junk, got>>

\* (mutant: FileNotFoundError is not told from the other exceptions)
SpawnError_Generic(command) ==
    IF command = "deno" THEN NoRes ELSE Exc("VMError:spawn")

\* except FileNotFoundError as err: raise VMError(... is unavailable) from err
\* except Exception as err: raise VMError("Failed starting VM server") from err
SpawnError(command) ==
    IF command = "missing" THEN Named("VMError:unavailable", command)
    ELSE IF command = "broken" THEN Exc("VMError:spawn")
    ELSE NoRes

\* self.process = Popen(args, bufsize=0, stdin=PIPE, stdout=PIPE)
Popen(t) ==
    /\ th[t].pc = "s_popen"
    /\ IF SpawnError(config.command) # NoRes
       THEN /\ th' = [th EXCEPT ![t] = Fin(t, @, SpawnError(config.command))]
            /\ UNCHANGED <<spawned, process, child>>
       ELSE /\ spawned < NProcs
            /\ spawned' = spawned + 1
            /\ process' = spawned + 1
            /\ child' = [child EXCEPT ![spawned + 1].alive = "run"]
            /\ th' = [th EXCEPT ![t].pc = "s_thread", ![t].proc = spawned + 1]
    /\ UNCHANGED <<config, closed, vms, poll, write_lock, inc, evset, vm, sysout,
                   ghostVars>>

\* Thread(target=reader, daemon=True).start(); self.communicate({"action": "ping"})
StartReader(t) ==
    /\ th[t].pc = "s_thread"
    /\ th' = [th EXCEPT ![t] = [@ EXCEPT !.act = "ping", !.pc = "gen1"],
                        ![ReaderOf(th[t].proc)].pc = "r_begin"]
    /\ UNCHANGED <<config, bridgeVars, vm, child, spawned, sysout, ghostVars>>

\* self.closed = False; return self
StartFinish(t) ==
    /\ th[t].pc = "s_fin"
    /\ closed' = "False"
    /\ th' = [th EXCEPT ![t] = Fin(t, @, Ret(NoneResp))]
    /\ UNCHANGED <<config, process, vms, poll, write_lock, inc, evset, vm, child,
                   spawned, sysout, ghostVars>>

\* ------------------------------------------------------------- close
\* (mutant: the check of self.closed is missing)
CloseIsNoop_Never == FALSE

\* if self.closed: return self
CloseIsNoop == closed = "True"

\* close() begins, on thread t whose record is s
CloseBegin(t, s) ==
    /\ th' = [th EXCEPT ![t] =
                IF CloseIsNoop
                THEN Fin(t, Enter([s EXCEPT !.cl = (closed = "True")], "close", "", None),
                         Ret(NoneResp))
                ELSE Enter([s EXCEPT !.cl = (closed = "True")], "close", "close", None)]
    /\ ncalls' = ncalls + 1

Close(t) ==
    /\ th[t].pc = "idle"
    /\ CloseBegin(t, th[t])
    /\ UNCHANGED <<config, bridgeVars, vm, child, spawned, sysout, ids, closeSent, nev,
                   junk, got>>

\* self.process.communicate(): closes the child's stdin ...
ProcessCommunicate(t) ==
    /\ th[t].pc = "c_pcomm"
    /\ IF process = None
       THEN /\ th' = [th EXCEPT ![t] = Fin(t, @, Exc("AttributeError"))]
            /\ UNCHANGED child
       ELSE /\ child' = [child EXCEPT ![process].stdinClosed = TRUE]
            /\ th' = [th EXCEPT ![t].pc = "c_pwait", ![t].proc = process]
    /\ UNCHANGED <<config, bridgeVars, vm, spawned, sysout, ghostVars>>

\* ... reads its stdout to the end, closes it and waits for the child's exit
ProcessWait(t) ==
    /\ th[t].pc = "c_pwait"
    /\ child[th[t].proc].alive = "dead"
    /\ child' = [child EXCEPT ![th[t].proc].out = <<>>,
                              ![th[t].proc].outClosed = TRUE]
    /\ th' = [th EXCEPT ![t].pc = "c_pnone"]
    /\ UNCHANGED <<config, bridgeVars, vm, spawned, sysout, ghostVars>>

\* self.process = None
ProcessNone(t) ==
    /\ th[t].pc = "c_pnone"
    /\ process' = None
    /\ th' = [th EXCEPT ![t].pc = "c_closed"]
    /\ UNCHANGED <<config, closed, vms, poll, write_lock, inc, evset, vm, child,
                   spawned, sysout, ghostVars>>

\* A call that is blocked in event.wait()
Blocked(s) == s.pc = "wait" /\ s.cno \notin evset

\* self.closed = True (pend records the calls that are pending at this moment)
SetClosed(t) ==
    /\ th[t].pc = "c_closed"
    /\ closed' = "True"
    /\ th' = [u \in Threads |->
                IF u = t THEN [th[u] EXCEPT !.pc = "c_wake"]
                ELSE IF Blocked(th[u]) THEN [th[u] EXCEPT !.pend = TRUE]
                ELSE th[u]]
    /\ UNCHANGED <<config, process, vms, poll, write_lock, inc, evset, vm, child,
                   spawned, sysout, ghostVars>>

\* with self.poll_lock: for event, _data in self.poll.values(): event.set()
WakeAll(t) ==
    /\ th[t].pc = "c_wake"
    /\ evset' = evset \cup {poll[i].ev : i \in DOMAIN poll}
    /\ th' = [th EXCEPT ![t] = Fin(t, @, Ret(NoneResp))]
    /\ UNCHANGED <<config, closed, process, vms, poll, write_lock, inc, vm, child,
                   spawned, sysout, ghostVars>>

CloseSteps(t) ==
    \/ ProcessCommunicate(t)
    \/ ProcessWait(t)
    \/ ProcessNone(t)
    \/ SetClosed(t)
    \/ WakeAll(t)

\* ------------------------------------------------------------- reader
Line(r) == Head(child[th[r].proc].out)
HasLine(r, type) ==
    /\ th[r].pc = "r_loop"
    /\ child[th[r].proc].out # <<>>
    /\ Line(r).type = type
Pop(r) == [child EXCEPT ![th[r].proc].out = Tail(@)]

\* for data in self.process.stdout: the thread's first step reads self.process
ReaderBegin(r) ==
    /\ th[r].pc = "r_begin"
    /\ th' = [th EXCEPT ![r] =
                IF process = None
                THEN Fin(r, [@ EXCEPT !.op = "reader"], Exc("AttributeError"))
                ELSE [@ EXCEPT !.op = "reader", !.pc = "r_loop", !.proc = process]]
    /\ UNCHANGED <<config, bridgeVars, vm, child, spawned, sysout, ghostVars>>

\* data["type"] == "response": with self.poll_lock: store the data, set the event
ReaderResponse(r) ==
    /\ HasLine(r, "response")
    /\ child' = Pop(r)
    /\ IF Line(r).id \in DOMAIN poll
       THEN /\ poll' = [poll EXCEPT ![Line(r).id].data = Line(r)]
            /\ evset' = evset \cup {poll[Line(r).id].ev}
            /\ UNCHANGED th
       ELSE /\ th' = [th EXCEPT ![r] = Fin(r, @, Exc("KeyError"))]
            /\ UNCHANGED <<config, poll, evset>>
    /\ UNCHANGED <<config, closed, process, vms, write_lock, inc, vm, spawned, sysout,
                   ghostVars>>

\* (mutant: the console mode is not looked at)
Queued_AnyMode(h, e) ==
    IF e.name \in {"console.log", "console.error"}
    THEN Append(vm[h].que, e) ELSE vm[h].que

\* (mutant: the event is put at the head of the queue)
Queued_AtHead(h, e) ==
    IF e.name \in {"console.log", "console.error"} /\ vm[h].console = "redirect"
    THEN <<e>> \o vm[h].que ELSE vm[h].que

\* What the reader does with an event e of a registered vm h
Queued(h, e) ==
    IF e.name \in {"console.log", "console.error"} /\ vm[h].console = "redirect"
    THEN Append(vm[h].que, e) ELSE vm[h].que
\* data.get("value", "") + "\n", as it is handed to write()
Text(v) == [value |-> v, end |-> "\n"]

\* (mutant: both streams are taken for the other one)
Printed_Swapped(h, e) ==
    IF vm[h].console # "inherit" THEN sysout
    ELSE IF e.name = "console.log"
         THEN [sysout EXCEPT !.stderr = Append(@, Text(e.value))]
    ELSE IF e.name = "console.error"
         THEN [sysout EXCEPT !.stdout = Append(@, Text(e.value))]
    ELSE sysout

Printed(h, e) ==
    IF vm[h].console # "inherit" THEN sysout
    ELSE IF e.name = "console.log"
         THEN [sysout EXCEPT !.stdout = Append(@, Text(e.value))]
    ELSE IF e.name = "console.error"
         THEN [sysout EXCEPT !.stderr = Append(@, Text(e.value))]
    ELSE sysout

\* data["type"] == "event"
ReaderEvent(r) ==
    /\ HasLine(r, "event")
    /\ child' = Pop(r)
    /\ IF Line(r).vmId \in DOMAIN vms
       THEN /\ vm' = [vm EXCEPT ![vms[Line(r).vmId]].que = Queued(vms[Line(r).vmId], Line(r))]
            /\ sysout' = Printed(vms[Line(r).vmId], Line(r))
       ELSE UNCHANGED <<config, vm, sysout>>
    /\ UNCHANGED <<config, bridgeVars, th, spawned, ghostVars>>

\* data["type"] is neither "response" nor "event": on to the next line
ReaderOther(r) ==
    /\ HasLine(r, "other")
    /\ child' = Pop(r)
    /\ UNCHANGED <<config, bridgeVars, th, vm, spawned, sysout, ghostVars>>

\* data = json.loads(...) or {} has no "type": data["type"] raises KeyError
ReaderNoType(r) ==
    /\ HasLine(r, "notype")
    /\ child' = Pop(r)
    /\ th' = [th EXCEPT ![r] = Fin(r, @, Exc("KeyError"))]
    /\ UNCHANGED <<config, bridgeVars, vm, spawned, sysout, ghostVars>>

\* except json.JSONDecodeError: self.close(); return
ReaderGarbage(r) ==
    /\ HasLine(r, "garbage")
    /\ child' = Pop(r)
    /\ CloseBegin(r, th[r])
    /\ UNCHANGED <<config, bridgeVars, vm, spawned, sysout, ids, closeSent, nev, junk, got>>

\* the for loop ends at the end of the stream (a closed stdout raises ValueError)
ReaderEof(r) ==
    /\ th[r].pc = "r_loop"
    /\ child[th[r].proc].out = <<>>
    /\ child[th[r].proc].alive = "dead"
    /\ th' = [th EXCEPT ![r] =
                Fin(r, @, IF child[th[r].proc].outClosed
                          THEN Exc("ValueError") ELSE Ret(NoneResp))]
    /\ UNCHANGED <<config, bridgeVars, vm, child, spawned, sysout, ghostVars>>

Reader(r) ==
    \/ ReaderBegin(r)
    \/ ReaderResponse(r)
    \/ ReaderEvent(r)
    \/ ReaderOther(r)
    \/ ReaderNoType(r)
    \/ ReaderGarbage(r)
    \/ ReaderEof(r)

\* ------------------------------------------------------------- BaseVM, VM
\* (mutant: the check of self.id is missing)
NotCreated_Never(h, a) == FALSE

\* if self.id is None and data["action"] != "create": raise VMError(...)
NotCreated(h, a) == vm[h].id = None /\ a # "create"

\* BaseVM.communicate(data) up to the call of self.bridge.communicate
BaseVMBegin(t, s, h, op, a) ==
    /\ th' = [th EXCEPT ![t] =
                IF NotCreated(h, a)
                THEN Fin(t, Enter([s EXCEPT !.h = h], op, a, None),
                         Exc("VMError:notcreated"))
                ELSE Enter([s EXCEPT !.h = h], op, a, vm[h].id)]
    /\ ncalls' = ncalls + 1

\* create(), run(code), call(name, *args), destroy() of handle h on thread t
VMCall(t, h, a) ==
    /\ th[t].pc = "idle"
    /\ BaseVMBegin(t, [th[t] EXCEPT !.cl = (closed = "True")], h, a, a)
    /\ UNCHANGED <<config, bridgeVars, vm, child, spawned, sysout, ids, closeSent, nev,
                   junk, got>>

\* create: self.id = self.communicate(data)
SetId(t) ==
    /\ th[t].pc = "v_setid"
    /\ vm' = [vm EXCEPT ![th[t].h].id = th[t].tmp, ![th[t].h].was = th[t].tmp]
    /\ th' = [th EXCEPT ![t].pc = "v_add"]
    /\ UNCHANGED <<config, bridgeVars, child, spawned, sysout, ghostVars>>

\* create: self.bridge.add_vm(self); self.after_create(data) runs the initial code
AddVm(t) ==
    /\ th[t].pc = "v_add"
    /\ vms' = VmsPut(vm[th[t].h].id, th[t].h)
    /\ IF vm[th[t].h].code
       THEN BaseVMBegin(t, th[t], th[t].h, "create_run", "run")
       ELSE /\ th' = [th EXCEPT ![t] = Fin(t, @, Ret(NoneResp))]
            /\ UNCHANGED ncalls
    /\ UNCHANGED <<config, closed, process, poll, write_lock, inc, evset, vm, child,
                   spawned, sysout, ids, closeSent, nev, junk, got>>

\* (mutant: the entry stays in the registry)
RemoveVm_Keep(t) ==
    /\ th[t].pc = "v_remove"
    /\ th' = [th EXCEPT ![t].pc = "v_clear"]
    /\ UNCHANGED <<config, closed, process, vms, poll, write_lock, inc, evset, vm,
                   child, spawned, sysout, ghostVars>>

\* destroy: self.bridge.remove_vm(self), that is del self.vms[vm.id]
RemoveVm(t) ==
    /\ th[t].pc = "v_remove"
    /\ IF vm[th[t].h].id \in DOMAIN vms
       THEN /\ vms' = VmsDel(vm[th[t].h].id)
            /\ th' = [th EXCEPT ![t].pc = "v_clear"]
       ELSE /\ th' = [th EXCEPT ![t] = Fin(t, @, Exc("KeyError"))]
            /\ UNCHANGED vms
    /\ UNCHANGED <<config, closed, process, poll, write_lock, inc, evset, vm, child,
                   spawned, sysout, ghostVars>>

\* destroy: self.id = None; return self
ClearId(t) ==
    /\ th[t].pc = "v_clear"
    /\ vm' = [vm EXCEPT ![th[t].h].id = None]
    /\ th' = [th EXCEPT ![t] = Fin(t, @, Ret(NoneResp))]
    /\ UNCHANGED <<config, bridgeVars, child, spawned, sysout, ghostVars>>

VMSteps(t) ==
    \/ SetId(t)
    \/ AddVm(t)
    \/ RemoveVm(t)
    \/ ClearId(t)

\* event = vm.event_que.get()
QueueGet(h) ==
    /\ vm[h].que # <<>>
    /\ got' = [got EXCEPT ![h] = Append(@, Head(vm[h].que))]
    /\ vm' = [vm EXCEPT ![h].que = Tail(@)]
    /\ UNCHANGED <<config, bridgeVars, th, child, spawned, sysout, ncalls, ids,
                   closeSent, nev, junk>>

\* VMServer.communicate(data) called directly
Raw(t) ==
    /\ th[t].pc = "idle"
    /\ th' = [th EXCEPT ![t] =
                Enter([@ EXCEPT !.cl = (closed = "True")], "raw", "ping", None)]
    /\ ncalls' = ncalls + 1
    /\ UNCHANGED <<config, bridgeVars, vm, child, spawned, sysout, ids, closeSent, nev,
                   junk, got>>

\* ------------------------------------------------------------- the child
\* vm-server answers one request: any request may fail; run, call and destroy
\* succeed only on a vm it holds; create returns a fresh vm id; after a
\* successful close it exits. The value of a run, a call or a ping is a value
\* per request.
CanSucceed(p, req) ==
    req.action \in {"ping", "close", "create"} \/ req.vmId \in child[p].cvms

Answered(c, req, status) ==
    IF status = "error" THEN [c EXCEPT !.inbox = @ \ {req},
                                       !.out = Append(@, Response(req, "error", 0))]
    ELSE CASE req.action = "create" ->
                [c EXCEPT !.inbox = @ \ {req}, !.nvm = @ + 1,
                          !.cvms = @ \cup {c.nvm + 1},
                          !.out = Append(@, Response(req, "success", c.nvm + 1))]
           [] req.action = "destroy" ->
                [c EXCEPT !.inbox = @ \ {req}, !.cvms = @ \ {req.vmId},
                          !.out = Append(@, Response(req, "success", 0))]
           [] req.action = "close" ->
                [c EXCEPT !.inbox = @ \ {req}, !.alive = "dead",
                          !.acked = @ \cup {req.cno},
                          !.out = Append(@, Response(req, "success", 0))]
           [] OTHER ->
                [c EXCEPT !.inbox = @ \ {req},
                          !.out = Append(@, Response(req, "success", req.cno))]

ChildRespond(p) ==
    /\ child[p].alive = "run"
    /\ \E req \in child[p].inbox, status \in {"success", "error"} :
         /\ status = "success" => CanSucceed(p, req)
         /\ child' = [child EXCEPT ![p] = Answered(@, req, status)]
    /\ UNCHANGED <<config, bridgeVars, th, vm, spawned, sysout, ghostVars>>

\* the child exits when its stdin is closed
ChildExit(p) ==
    /\ child[p].alive = "run"
    /\ child[p].stdinClosed
    /\ child' = [child EXCEPT ![p].alive = "dead"]
    /\ UNCHANGED <<config, bridgeVars, th, vm, spawned, sysout, ghostVars>>

\* the child dies
ChildCrash(p) ==
    /\ child[p].alive = "run"
    /\ ~child[p].stdinClosed
    /\ child' = [child EXCEPT ![p].alive = "dead"]
    /\ UNCHANGED <<config, bridgeVars, th, vm, spawned, sysout, ghostVars>>

\* the child prints a line that is not JSON
ChildGarbage(p) ==
    /\ child[p].alive = "run"
    /\ junk < MaxJunk
    /\ junk' = junk + 1
    /\ child' = [child EXCEPT ![p].out = Append(@, Garbage)]
    /\ UNCHANGED <<config, bridgeVars, th, vm, spawned, sysout, ncalls, ids, closeSent,
                   nev, got>>

\* the child prints a line that is JSON but not what the protocol has at this
\* point: no type, another type, a response to no request (id 0 is never
\* allocated, id 1 is the ping's), an event of another name or of no vm
StrayLines ==
    {NoType, OtherType, StrayResponse(0), StrayResponse(1),
     Event(1, "other", 0), Event(0, "console.log", 0)}

ChildStray(p) ==
    /\ child[p].alive = "run"
    /\ junk < MaxJunk
    /\ junk' = junk + 1
    /\ \E line \in StrayLines : child' = [child EXCEPT ![p].out = Append(@, line)]
    /\ UNCHANGED <<config, bridgeVars, th, vm, spawned, sysout, ncalls, ids, closeSent,
                   nev, got>>

\* a vm of the child writes to its console; what a vm wrote may still come
\* out after the vm was destroyed
ChildEvent(p) ==
    /\ child[p].alive = "run"
    /\ nev < MaxEvents
    /\ \E v \in 1..child[p].nvm, name \in {"console.log", "console.error"} :
         child' = [child EXCEPT ![p].out = Append(@, Event(v, name, nev + 1))]
    /\ nev' = nev + 1
    /\ UNCHANGED <<config, bridgeVars, th, vm, spawned, sysout, ncalls, ids, closeSent,
                   junk, got>>

\* ------------------------------------------------------------- programs
\* The callers' program: any caller that is idle may call start(), close() or
\* communicate() at any time.
Budget == ncalls < MaxCalls
Starting == {u \in Callers : th[u].pc = "s_popen"}

\* Thread 1 is the main thread: it alone calls start(). The callers use the
\* bridge (communicate, close) once start() has returned.
Main == CHOOSE t \in Callers : \A u \in Callers : t <= u

CallStart(t) ==
    /\ t = Main
    /\ Budget
    /\ StartRefused \/ spawned + Cardinality(Starting) < MaxSpawn
    /\ Start(t)

CallClose(t) ==
    /\ closed # "None"
    /\ Budget
    /\ Close(t)

CallRaw(t) ==
    /\ closed # "None"
    /\ Budget
    /\ Raw(t)

StartSteps(t) ==
    \/ Popen(t)
    \/ StartReader(t)
    \/ StartFinish(t)

Next ==
    \/ \E t \in Callers : CallStart(t) \/ CallClose(t) \/ CallRaw(t) \/ StartSteps(t)
    \/ \E t \in Threads : Communicate(t) \/ CloseSteps(t)
    \/ \E r \in Readers : ReaderBegin(r) \/ ReaderResponse(r) \/ ReaderGarbage(r) \/ ReaderEof(r)
    \/ \E p \in Procs : ChildRespond(p) \/ ChildExit(p) \/ ChildCrash(p) \/ ChildGarbage(p)

Spec == Init /\ [][Next]_vars

\* The program that uses VM handles: the main thread starts the bridge, then
\* creates, runs, calls and destroys VMs while the reader thread dispatches
\* what the child's VMs write to their consoles and the program takes events
\* from the queues.
InitVM ==
    /\ InitBridge
    /\ config = DefaultConfig
    /\ vm \in [Handles -> {Handle0(c, code) : c \in {"off", "redirect", "inherit"},
                                              code \in BOOLEAN}]

VMBudget == ncalls < MaxVMCalls

StartOnce(t) ==
    /\ t = Main
    /\ spawned = 0
    /\ Start(t)

CallVM(t, h, a) ==
    /\ closed = "False"
    /\ VMBudget
    /\ VMCall(t, h, a)

NextVM ==
    \/ \E t \in {Main} : StartOnce(t) \/ StartSteps(t) \/ Communicate(t) \/ VMSteps(t)
    \/ \E t \in {Main}, h \in Handles, a \in {"create", "run", "call", "destroy"} :
          CallVM(t, h, a)
    \/ \E r \in Readers : ReaderBegin(r) \/ ReaderResponse(r) \/ ReaderEvent(r)
    \/ \E p \in Procs : ChildRespond(p) \/ ChildEvent(p)
    \/ \E h \in Handles : QueueGet(h)

SpecVM == InitVM /\ [][NextVM]_vars

\* The program that constructs a bridge with some command and permissions and
\* calls start(), again after a failure.
InitStart ==
    /\ InitBridge
    /\ config \in Configs
    /\ vm = [h \in Handles |-> Handle0("off", FALSE)]

NextStart ==
    \/ \E t \in {Main} : CallStart(t) \/ StartSteps(t) \/ Communicate(t)
    \/ \E r \in Readers : ReaderBegin(r) \/ ReaderResponse(r)
    \/ \E p \in Procs : ChildRespond(p)

SpecStart == InitStart /\ [][NextStart]_vars

\* The program of Spec without close(), with a child that stays alive and may
\* print lines that are JSON but outside the protocol.
NextLines ==
    \/ \E t \in Callers : CallStart(t) \/ CallRaw(t) \/ StartSteps(t) \/ Communicate(t)
    \/ \E r \in Readers : \/ ReaderBegin(r) \/ ReaderResponse(r) \/ ReaderEvent(r)
                           \/ ReaderOther(r) \/ ReaderNoType(r)
    \/ \E p \in Procs : ChildRespond(p) \/ ChildStray(p)

SpecLines == Init /\ [][NextLines]_vars

\* The program of one thread that calls start() and close() in any order,
\* start() on a bridge that is Started included.
CallRestart(t) ==
    /\ t = Main
    /\ Budget
    /\ StartRefused \/ spawned + Cardinality(Starting) < NProcs
    /\ Start(t)

NextRestart ==
    \/ \E t \in {Main} : \/ CallRestart(t) \/ CallClose(t) \/ StartSteps(t)
                          \/ Communicate(t) \/ CloseSteps(t)
    \/ \E r \in Readers : ReaderBegin(r) \/ ReaderResponse(r) \/ ReaderEof(r)
    \/ \E p \in Procs : ChildRespond(p)

SpecRestart == Init /\ [][NextRestart]_vars

\* ------------------------------------------------------------- claims
\* The steps the bridge and an answering child take by themselves: no new
\* call of the program, no fault of the child.
SystemNext ==
    \/ \E t \in Threads : Communicate(t) \/ CloseSteps(t)
    \/ \E t \in Callers : StartSteps(t)
    \/ \E r \in Readers : Reader(r)
    \/ \E p \in Procs : ChildRespond(p) \/ ChildExit(p)
Quiescent == ~ENABLED SystemNext

Returned(t, op) == th[t].pc = "idle" /\ th[t].op = op /\ th[t].res.k = "ret"
Failed(t, op) == th[t].pc = "idle" /\ th[t].op = op /\ th[t].res.k = "exc"

\* C1: every communicate call that returns a response returns the response to
\* its own request, with the id stamped on its own request.
C1_OwnResponse ==
    \A t \in Callers :
        (Returned(t, "raw") /\ th[t].res.d # NoneResp)
            => (th[t].res.d.cno = th[t].cno /\ th[t].res.d.id = th[t].id)

\* C2: the k-th id generate_id returns is k, so no two calls obtain the same id.
C2_IdsDistinctIncreasing ==
    (\A r \in Readers : th[r].op # "close") => \A k \in 1..Len(ids) : ids[k] = k

\* C3: once the child has acknowledged the close request of a caller's close()
\* and exited, no call stays blocked in event.wait(): when the bridge can take no
\* further step, no thread is still waiting.
CloseAcked(t) == th[t].op = "close" /\ \E p \in Procs : th[t].cno \in child[p].acked

C3_CloseUnblocksAll ==
    ((\E t \in Callers : CloseAcked(t)) /\ Quiescent)
        => \A t \in Threads : ~Blocked(th[t])

\* C4: a call that was pending when the bridge closed, or that was made on a
\* closed bridge, ends with a VMError and leaves no entry for its id in poll
\* (stated for the runs in which only callers, not the reader, call close()).
C4_ServerClosedError ==
    (\A r \in Readers : th[r].op # "close") =>
        \A t \in Callers :
            (th[t].pc = "idle" /\ th[t].op = "raw" /\ (th[t].cl \/ th[t].pend))
                => /\ th[t].res.k = "exc"
                   /\ th[t].res.e \in VMErrors
                   /\ th[t].id \notin DOMAIN poll

\* C5 as stated: over any sequence of close() calls (all made by the main
\* thread, one after the other) at most one 'close' request is sent.
C5_AtMostOneCloseRequest ==
    (\A i \in 1..Len(closeSent) : closeSent[i] = Main) => Len(closeSent) <= 1

\* C5 amended: a close() call that finds the bridge Closed returns at once without
\* error, allocates no id, writes nothing to the child and changes no state of the
\* bridge.
C5_CloseOnClosedIsNoop ==
    [][\A t \in Threads :
          (th'[t].op = "close" /\ th'[t].cl)
              => /\ th'[t].pc \in {"idle", "r_done"}
                 /\ th'[t].res = Ret(NoneResp)
                 /\ th'[t].id = 0
                 /\ th'[t].cno \notin {poll'[i].ev : i \in DOMAIN poll'}
                 /\ (th'[t] # th[t] =>
                        /\ UNCHANGED <<bridgeVars, spawned, ids, closeSent>>
                        /\ \A p \in Procs : /\ child'[p].inbox = child[p].inbox
                                             /\ child'[p].alive = child[p].alive
                                             /\ child'[p].stdinClosed = child[p].stdinClosed)]_vars

C5_Witness ==
    \E t \in Callers : Returned(t, "close") /\ th[t].cl /\ Len(closeSent) = 1

\* C6: after the reader read an unparsable line and called close(), the bridge
\* ends Closed with the reader loop over and no call left blocked.
C6_GarbageCloses ==
    ((\E r \in Readers : th[r].op = "close") /\ Quiescent)
        => /\ closed = "True"
           /\ \A r \in Readers : th[r].op = "close" => th[r].pc \in {"r_done", "r_dead"}
           /\ \A t \in Threads : ~Blocked(th[t])

\* C7: once closed is True it stays True: the bridge never becomes Started again.
C7_ClosedIsTerminal ==
    [][closed = "True" => closed' = "True"]_vars

\* Thread t begins an operation in this step.
Begins(t) == th[t].pc = "idle" /\ th'[t].cno = ncalls + 1 /\ ncalls' = ncalls + 1

\* C8: run, call and destroy on a handle whose id is None fail with the
\* NotCreated error at once: no id is allocated, no poll entry added, nothing is
\* written to the child.
C8_NotCreatedFirst ==
    [][\A t \in Callers :
          (/\ Begins(t)
           /\ th'[t].op \in {"run", "call", "destroy"}
           /\ vm[th'[t].h].id = None)
              => /\ th'[t].pc = "idle"
                 /\ th'[t].res = Exc("VMError:notcreated")
                 /\ UNCHANGED <<inc, ids, poll, child, vms, vm>>]_vars

C8_Witness ==
    \E t \in Callers :
        /\ Failed(t, "run")
        /\ th[t].res.e = "VMError:notcreated"
        /\ vm[th[t].h].id = None
        /\ vm[th[t].h].was # None

\* C9: when no create or destroy is in progress, the registry holds id -> session
\* exactly for the sessions that have an id, no entry is left under an id its
\* session no longer has, and a create whose request failed registered nothing
\* (the session has the id it had before the call).
C9_RegistryExact ==
    (\A t \in Callers : th[t].pc = "idle")
        => /\ \A h \in Handles :
                vm[h].id # None => (vm[h].id \in DOMAIN vms /\ vms[vm[h].id] = h)
           /\ \A k \in DOMAIN vms : vm[vms[k]].id = k
           /\ \A t \in Callers :
                Failed(t, "create") => vm[th[t].h].id = th[t].vmid

\* C10: the reader appends each console.log and console.error event of a
\* registered session in 'redirect' mode to the tail of that session's queue
\* and to no other queue, once; what a queue yields and still holds is in the
\* order the child emitted it, without repetition.
Emitted(h) == got[h] \o vm[h].que
InOrder(q) == \A i, j \in 1..Len(q) : i < j => q[i].value < q[j].value

ReadsEvent(r) ==
    /\ HasLine(r, "event")
    /\ child'[th[r].proc].out = Tail(child[th[r].proc].out)
    /\ child'[th[r].proc].outClosed = child[th[r].proc].outClosed

C10_RedirectFifo ==
    [][/\ \A r \in Readers :
            (/\ ReadsEvent(r)
             /\ Line(r).vmId \in DOMAIN vms
             /\ vm[vms[Line(r).vmId]].console = "redirect"
             /\ Line(r).name \in {"console.log", "console.error"})
                => /\ vm'[vms[Line(r).vmId]].que
                         = Append(vm[vms[Line(r).vmId]].que, Line(r))
                   /\ \A h \in Handles \ {vms[Line(r).vmId]} : vm'[h].que = vm[h].que
       /\ \A h \in Handles : InOrder(Emitted(h)')]_vars

C10_Witness ==
    \E h \in Handles :
        /\ vm[h].console = "redirect"
        /\ Len(got[h]) = 1
        /\ Len(vm[h].que) = 1
        /\ got[h][1].name = "console.log"

\* C11: for a registered session in 'inherit' mode the reader writes the value
\* of a console.log event and a newline to sys.stdout, of a console.error event
\* to sys.stderr, writes nothing else and appends to no queue.
C11_InheritWrites ==
    [][\A r \in Readers :
          (/\ ReadsEvent(r)
           /\ Line(r).vmId \in DOMAIN vms
           /\ vm[vms[Line(r).vmId]].console = "inherit")
              => /\ Line(r).name = "console.log" =>
                      sysout' = [sysout EXCEPT !.stdout = Append(@, Text(Line(r).value))]
                 /\ Line(r).name = "console.error" =>
                      sysout' = [sysout EXCEPT !.stderr = Append(@, Text(Line(r).value))]
                 /\ \A h \in Handles : vm'[h].que = vm[h].que
                 /\ th'[r].pc = "r_loop"]_vars

C11_Witness ==
    /\ Len(sysout.stdout) = 1
    /\ Len(sysout.stderr) = 1
    /\ sysout.stdout[1].end = "\n"
    /\ \E h \in Handles : vm[h].console = "inherit" /\ vm[h].id # None

\* C12: BaseVM.communicate ends as the response matched to the call says: on
\* status 'error' the call fails with a VMError whose message is the response's
\* error text; on 'success' run and call return the response's value, create
\* takes it as the session id and destroy goes on to unregister.
TakesResponse(t) ==
    /\ th[t].pc = "del"
    /\ th'[t].pc # "del"
    /\ th[t].op \in {"create", "create_run", "run", "call", "destroy"}

C12_OutcomeFromResponse ==
    [][\A t \in Callers :
          TakesResponse(t) =>
              /\ th[t].id \in DOMAIN poll
              /\ poll[th[t].id].data.cno = th[t].cno
              /\ poll[th[t].id].data.status = "error" =>
                    /\ th'[t].pc = "idle"
                    /\ th'[t].res = RemoteError(poll[th[t].id].data.error)
                    /\ th'[t].res.d.error = ErrorText(Request(th[t]))
              /\ poll[th[t].id].data.status = "success" =>
                    /\ th[t].op \in {"run", "call"} =>
                          th'[t].res = RetValue(poll[th[t].id].data.value)
                    /\ th[t].op = "create" =>
                          th'[t].pc = "v_setid" /\ th'[t].tmp = poll[th[t].id].data.value
                    /\ th[t].op = "destroy" => th'[t].pc = "v_remove"
                    /\ th'[t].res.k # "exc"]_vars

C12_Witness ==
    \E t \in Callers :
        /\ Failed(t, "call")
        /\ th[t].res.e = "VMError:remote"
        /\ th[t].res.d.error = th[t].cno
        /\ vm[th[t].h].id # None

\* C13: when some value of the permissions is not a list, or some list holds an
\* element that is not a string, start() fails with a VMError that names an
\* offending category before anything is spawned: no process, no reader thread,
\* no request, and the bridge stays Unstarted.
Offends(item) ==
    ~item.isList \/ \E i \in 1..Len(item.elems) : item.elems[i] # "str"
Invalid(perms) ==
    perms # NoPermissions /\ \E i \in 1..Len(perms) : Offends(perms[i])

C13_InvalidPermissions ==
    [][Invalid(config.permissions) =>
          /\ \A t \in Callers :
                (Begins(t) /\ th'[t].op = "start") =>
                    /\ th'[t].pc = "idle"
                    /\ th'[t].res.k = "exc"
                    /\ th'[t].res.e \in {"VMError:permtype", "VMError:permvalue"}
                    /\ \E i \in 1..Len(config.permissions) :
                          /\ Offends(config.permissions[i])
                          /\ th'[t].res.d.name = config.permissions[i].cat
                          /\ (th'[t].res.e = "VMError:permtype")
                                = ~config.permissions[i].isList
          /\ closed' = "None" /\ process' = None /\ spawned' = 0
          /\ inc' = 1 /\ poll' = <<>>
          /\ \A r \in Readers : th'[r].pc = "r_none"
          /\ \A p \in Procs : child'[p] = Child0]_vars

C13_Witness ==
    /\ Len(config.permissions) = 2
    /\ config.permissions[1].isList /\ ~Offends(config.permissions[1])
    /\ config.permissions[2].elems = <<"str", "bool">>
    /\ \E t \in Callers :
          /\ Failed(t, "start")
          /\ th[t].res = Named("VMError:permvalue", config.permissions[2].cat)

\* C14: when the executable is not found start() fails with a VMError that
\* names the command, another failure to launch gives a VMError with a different
\* message; in both cases no reader thread is started, no request is sent and
\* the bridge is not Started.
C14_SpawnFailed ==
    [][(~Invalid(config.permissions) /\ config.command # "deno") =>
          /\ \A t \in Callers :
                (th[t].pc = "s_popen" /\ th'[t].pc # "s_popen") =>
                    /\ th'[t].pc = "idle"
                    /\ th'[t].res.k = "exc"
                    /\ config.command = "missing" =>
                          /\ th'[t].res.e = "VMError:unavailable"
                          /\ th'[t].res.d.name = config.command
                    /\ config.command = "broken" =>
                          /\ th'[t].res.e = "VMError:spawn"
                          /\ th'[t].res # Named("VMError:unavailable", config.command)
          /\ closed' = "None" /\ process' = None /\ spawned' = 0
          /\ inc' = 1 /\ poll' = <<>>
          /\ \A r \in Readers : th'[r].pc = "r_none"
          /\ \A p \in Procs : child'[p] = Child0]_vars

C14_Witness ==
    /\ config.command = "missing"
    /\ \E t \in Callers :
          /\ Failed(t, "start")
          /\ th[t].res = Named("VMError:unavailable", "missing")
          /\ closed = "None"

\* C15: when the reader reaches the end of the child's output and nobody has
\* called close(), the bridge ends Closed and no call is left blocked in
\* event.wait(), the ping of start() included.
EndOfStream(r) == th[r].op = "reader" /\ th[r].pc = "r_done"

C15_EofCloses ==
    (/\ \E r \in Readers : EndOfStream(r)
     /\ \A t \in Threads : th[t].op # "close"
     /\ closeSent = <<>>
     /\ Quiescent)
        => /\ closed = "True"
           /\ \A t \in Threads : ~Blocked(th[t])

\* C16: a line that parses as JSON never stops the reader: after reading any
\* line that is not unparsable the reader is in its loop, ready for the next.
ReadsLine(r) ==
    /\ th[r].pc = "r_loop"
    /\ child[th[r].proc].out # <<>>
    /\ child'[th[r].proc].out = Tail(child[th[r].proc].out)
    /\ child'[th[r].proc].outClosed = child[th[r].proc].outClosed

C16_JsonKeepsReaderRunning ==
    [][\A r \in Readers :
          (ReadsLine(r) /\ Line(r).type # "garbage") => th'[r].pc = "r_loop"]_vars

\* C17: an event whose vmId is not in the registry, or whose session has
\* console mode 'off', is dropped: nothing is queued or printed, poll and the
\* registry stay as they are, and the reader goes on to the next line.
Dropped(r) ==
    /\ ReadsEvent(r)
    /\ \/ Line(r).vmId \notin DOMAIN vms
       \/ vm[vms[Line(r).vmId]].console = "off"

C17_DroppedEventNoEffect ==
    [][\A r \in Readers :
          Dropped(r) => /\ UNCHANGED <<vm, sysout, got, bridgeVars>>
                        /\ th'[r].pc = "r_loop"
                        /\ \A t \in Callers : th'[t] = th[t]]_vars

EventsPending ==
    \E p \in Procs : \E i \in 1..Len(child[p].out) : child[p].out[i].type = "event"

C17_Witness ==
    /\ nev >= 1
    /\ ~EventsPending
    /\ \A h \in Handles : /\ vm[h].console = "redirect"
                           /\ vm[h].que = <<>> /\ got[h] = <<>>
    /\ process # None /\ th[ReaderOf(process)].pc = "r_loop"

\* C18 as stated: after a successful destroy of a session in 'redirect' mode
\* its event queue is empty.
C18_QueueEmptyAfterDestroy ==
    \A t \in Callers :
        (Returned(t, "destroy") /\ vm[th[t].h].console = "redirect")
            => vm[th[t].h].que = <<>>

\* C18 amended: destroy leaves the session's event queue as it is (what was
\* queued can still be taken), removes the session's id from the registry and
\* clears it; an event of that id that the reader looks up afterwards is
\* dropped.
DestroyStep(t) ==
    /\ th[t].op = "destroy"
    /\ th[t].pc \in {"del", "v_remove", "v_clear"}
    /\ th'[t] # th[t]

C18_DestroyKeepsQueue ==
    [][/\ \A t \in Callers :
            DestroyStep(t) =>
                /\ \A h \in Handles : vm'[h].que = vm[h].que
                /\ (th'[t].pc = "idle" /\ th'[t].res.k = "ret") =>
                      /\ vm'[th[t].h].id = None
                      /\ th[t].vmid \notin DOMAIN vms'
       /\ \A r \in Readers, h \in Handles :
            (/\ ReadsEvent(r)
             /\ vm[h].id = None
             /\ vm[h].was # None
             /\ Line(r).vmId = vm[h].was)
                => UNCHANGED <<vm, sysout>>]_vars

C18_Witness ==
    \E t \in Callers :
        /\ Returned(t, "destroy")
        /\ vm[th[t].h].console = "redirect"
        /\ vm[th[t].h].id = None
        /\ Len(vm[th[t].h].que) = 1
        /\ nev = 2 /\ ~EventsPending

\* C19: at most one thread is writing to the child's stdin, and it holds
\* write_lock; a request goes to the child whole, in one write by the holder of
\* the lock, who releases it; the reader takes the next line whoever holds
\* write_lock (the table lock is another lock, not held across the write).
Writers == {t \in Threads : th[t].pc = "write"}
Inbox == UNION {child[p].inbox : p \in Procs}

C19_WritesExclusive ==
    [][/\ Cardinality(Writers) <= 1
       /\ \A t \in Writers : write_lock = t
       /\ write_lock # None => write_lock \in Writers
       /\ \A r \in Readers :
            (th[r].pc = "r_loop" /\ child[th[r].proc].out # <<>>) => ENABLED Reader(r)
       /\ \A req \in Inbox' \ Inbox :
            \E t \in Writers : /\ req = Request(th[t])
                                /\ Inbox' \ Inbox = {req}
                                /\ write_lock' = None
                                /\ th'[t].pc = "wait"]_vars

C19_Witness ==
    \E t \in Threads, u \in Threads :
        /\ th[t].pc = "write"
        /\ th[u].pc = "wlock"
        /\ write_lock = t
        /\ th[t].act = "ping" /\ th[u].act = "ping"
        /\ closed = "False"

\* C20: poll holds an entry for an id only while the communicate call that
\* put it there is in flight (between its insert and its delete), so poll is
\* empty when no call is in flight (stated for the runs in which only callers,
\* not the reader, call close()).
InFlight(t) == th[t].pc \in {"wlock", "write", "wait", "del"}

C20_PollOnlyInFlight ==
    (\A r \in Readers : th[r].op # "close") =>
        \A i \in DOMAIN poll : \E t \in Threads : InFlight(t) /\ th[t].id = i

\* C21: start() sets closed to False and returns only after the process was
\* spawned, then the reader thread launched, then the ping written and answered
\* with status 'success'; when the ping is answered with status 'error'
\* start() fails with a VMError and closed is left as it was, which is not
\* False when the process is the first the bridge spawned.
Spawned(t) == th[t].proc # None /\ child[th[t].proc].alive # "none"
Launched(t) == Spawned(t) /\ th[ReaderOf(th[t].proc)].pc # "r_none"
PingSent(t) ==
    \/ Request(th[t]) \in Inbox
    \/ \E p \in Procs : \E i \in 1..Len(child[p].out) : child[p].out[i].cno = th[t].cno
    \/ th[t].id \in DOMAIN poll /\ poll[th[t].id].data.cno = th[t].cno

C21_StartOrder ==
    [][/\ closed' # closed => \E t \in Callers :
                                  /\ th[t].op = "start" /\ th[t].pc = "s_fin"
                                  /\ closed' = "False"
                                  /\ Returned(t, "start")'
       /\ \A t \in Callers : th[t].op = "start" =>
            /\ th[t].pc \notin {"idle", "s_popen"} => Spawned(t)
            /\ th[t].pc \notin {"idle", "s_popen", "s_thread"} => Launched(t)
            /\ PingSent(t) => (Launched(t) /\ th[t].act = "ping")
            /\ (th'[t].pc = "s_fin" /\ th[t].pc # "s_fin") =>
                  /\ th[t].pc = "del"
                  /\ th[t].id \in DOMAIN poll
                  /\ poll[th[t].id].data.type = "response"
                  /\ poll[th[t].id].data.status = "success"
                  /\ poll[th[t].id].data.cno = th[t].cno
                  /\ Launched(t)
            /\ (/\ th[t].pc = "del" /\ th'[t].pc # "del"
                /\ th[t].id \in DOMAIN poll
                /\ poll[th[t].id].data.status = "error") =>
                  /\ th'[t].pc = "idle"
                  /\ th'[t].res = Exc("VMError:start")
                  /\ closed' = closed
                  /\ spawned = 1 => closed # "False"]_vars

C21_Witness ==
    \E t \in Callers :
        /\ Returned(t, "start")
        /\ closed = "False"
        /\ process # None /\ child[process].alive = "run"
        /\ th[ReaderOf(process)].pc = "r_loop"
        /\ poll = <<>>

\* C22: over any sequence of start() and close() calls one bridge spawns at
\* most one process and launches at most one reader thread.
ReadersLaunched == {r \in Readers : th[r].pc # "r_none"}

C22_OneProcessOneReader ==
    spawned <= 1 /\ Cardinality(ReadersLaunched) <= 1

====
